---- MODULE Spec2Model ----
(***************************************************************************)
(* Model of protocol_synopsis_generator.py: the sentence chunker           *)
(* (_chunk_text) and the extraction-and-merge pipeline (_process_chunk,    *)
(* _merge_info, generate_synopsis, main).                                  *)
(*                                                                         *)
(* Two specifications share the module:                                    *)
(*   SpecChunk  one call of _chunk_text, one step per loop iteration;      *)
(*   Spec       one run of main: generate_synopsis over the chunks, then   *)
(*              the two output artifacts.                                  *)
(***************************************************************************)
EXTENDS Integers, Sequences, FiniteSets, TLC

\* ------------------------------------------------------------------ bounds
MaxTextLen == 5
MaxChunkSize == 3
MaxChunks == 3

\* the default of max_chunk_size, which generate_synopsis uses
DefaultMaxChunkSize == 100000

\* ------------------------------------------------------------ text helpers
\* A text is a sequence of one-character strings.
NL == "\n"
Chars == {"a", ".", " ", NL}

RECURSIVE TextsOfLen(_)
TextsOfLen(n) ==
  IF n = 0 THEN {<<>>}
  ELSE {Append(t, c) : t \in TextsOfLen(n - 1), c \in Chars}

Texts == UNION {TextsOfLen(n) : n \in 0..MaxTextLen}

\* str.replace('\n', ' ')                                          (line 119)
ReplaceNewlines(text) ==
  [i \in 1..Len(text) |-> IF text[i] = NL THEN " " ELSE text[i]]

\* str.split('. '): left-to-right scan for non-overlapping separators; the
\* result always holds at least one (possibly empty) piece.
RECURSIVE SplitFrom(_, _, _)
SplitFrom(s, i, cur) ==
  IF i > Len(s) THEN <<cur>>
  ELSE IF i < Len(s) /\ s[i] = "." /\ s[i + 1] = " "
       THEN <<cur>> \o SplitFrom(s, i + 2, <<>>)
       ELSE SplitFrom(s, i + 1, Append(cur, s[i]))

Split(s) == SplitFrom(s, 1, <<>>)

\* '. '.join(parts)
RECURSIVE Join(_)
Join(parts) ==
  IF parts = <<>> THEN <<>>
  ELSE IF Len(parts) = 1 THEN parts[1]
  ELSE parts[1] \o <<".", " ">> \o Join(Tail(parts))

\* '. '.join(current_chunk) + '.'                           (lines 127, 135)
CloseChunk(parts) == Join(parts) \o <<".">>

\* a chunker that forgets the sentence that did not fit
NewChunk_dropped(sentence) == <<>>

\* the chunk opened by the sentence that did not fit            (line 128)
NewChunk(sentence) == <<sentence>>

\* the size test of line 126: only the sentences' own lengths are summed
Overflows(size, sentence_size, limit) == size + sentence_size > limit

RECURSIVE Flatten(_)
Flatten(ss) == IF ss = <<>> THEN <<>> ELSE ss[1] \o Flatten(Tail(ss))

\* ------------------------------------------------------------ JSON values
\* An element of a list, or the payload of a scalar: a string (k = "s"), a
\* number (k = "n") or an object with the three StudyArm fields (k = "d").
NoElem == [k |-> "none", a |-> "", b |-> "", c |-> "", n |-> 0]
S(x) == [k |-> "s", a |-> x, b |-> "", c |-> "", n |-> 0]
N(x) == [k |-> "n", a |-> "", b |-> "", c |-> "", n |-> x]
D(x, y, z) == [k |-> "d", a |-> x, b |-> y, c |-> z, n |-> 0]

\* A value: a key that is not in the dict (t = "missing"), null / None,
\* a scalar, or a list.
Missing == [t |-> "missing", e |-> NoElem, l |-> <<>>]
Null == [t |-> "null", e |-> NoElem, l |-> <<>>]
Scalar(e) == [t |-> "scalar", e |-> e, l |-> <<>>]
List(l) == [t |-> "list", e |-> NoElem, l |-> l]

\* isinstance(value, list) / isinstance(value, str) /
\* isinstance(value, (int, float))
IsList(v) == v.t = "list"
IsStr(v) == v.t = "scalar" /\ v.e.k = "s"
IsNum(v) == v.t = "scalar" /\ v.e.k = "n"

\* Python truthiness: "", 0, [] and None are falsy
Truthy(v) ==
  \/ v.t = "list" /\ v.l # <<>>
  \/ v.t = "scalar" /\ v.e.k = "s" /\ v.e.a # ""
  \/ v.t = "scalar" /\ v.e.k = "n" /\ v.e.n # 0
  \/ v.t = "scalar" /\ v.e.k = "d"

\* ------------------------------------------------------------ the schema
\* One field of each kind of ProtocolSynopsis, by its own name, and one key
\* the schema does not know.
StrKeys == {"sponsor"}                        \* str
OptStrKeys == {"interim_analysis"}            \* Optional[str]
IntKeys == {"sample_size"}                    \* int
StrListKeys == {"primary_objectives"}         \* List[str]
ArmListKeys == {"arms"}                       \* List[StudyArm]
UnknownKeys == {"site_notes"}

array_fields == StrListKeys \cup ArmListKeys
FillOnceKeys == StrKeys \cup OptStrKeys \cup IntKeys
SchemaKeys == FillOnceKeys \cup array_fields
Keys == SchemaKeys \cup UnknownKeys

\* the order of the keys in default_structure; an unknown key is added last
KeyOrder == <<"sponsor", "primary_objectives", "arms", "sample_size",
              "interim_analysis", "site_notes">>

\* default_structure of _process_chunk, and the same table in _merge_info
default_structure ==
  [k \in Keys |->
     IF k \in array_fields THEN List(<<>>)
     ELSE IF k \in IntKeys THEN Scalar(N(0))
     ELSE IF k \in SchemaKeys THEN Scalar(S(""))
     ELSE Missing]

\* ----------------------------------------------------------- _process_chunk
\* an Extractor without the list coercion of lines 295-299
CoerceField_asis(key, value) == value

\* lines 295-301: what default_structure[key] becomes for a decoded value
CoerceField(key, value) ==
  IF key \in array_fields /\ ~IsList(value)
  THEN IF Truthy(value) THEN List(<<value.e>>) ELSE List(<<>>)
  ELSE value

\* lines 239-303: the record returned for a decoded JSON object
ProcessChunk(parsed_result) ==
  [k \in Keys |->
     IF parsed_result[k].t = "missing" THEN default_structure[k]
     ELSE CoerceField(k, parsed_result[k])]

\* -------------------------------------------------------------- _merge_info
Range(q) == {q[j] : j \in 1..Len(q)}

\* every order list(set(...)) can give the distinct elements in
Orderings(set) ==
  {q \in [1..Cardinality(set) -> set] : Range(q) = set}

\* a merge that appends every new item, present or not
AppendNew_all(old, items) == old \o items

\* lines 368-370: append each new item that is not yet in the list
RECURSIVE AppendNew(_, _)
AppendNew(old, items) ==
  IF items = <<>> THEN old
  ELSE AppendNew(IF items[1] \in Range(old) THEN old
                 ELSE Append(old, items[1]),
                 Tail(items))

\* a union that extends the list and removes no duplicate
UnionOutcomes_extended(old, items) ==
  {[err |-> FALSE, val |-> List(old \o items)]}

\* lines 372-373: extend, then list(set(...)); a dict is not hashable, so
\* set() raises TypeError when the extended list holds one
UnionOutcomes(old, items) ==
  LET all == old \o items
  IN IF \E j \in 1..Len(all) : all[j].k = "d"
     THEN {[err |-> TRUE, val |-> List(all)]}
     ELSE {[err |-> FALSE, val |-> List(q)] : q \in Orderings(Range(all))}

Ok(v) == {[err |-> FALSE, val |-> v]}

\* lines 360-377 for one key of new: the values base[key] can end with
MergeValue(b, value) ==
  IF b.t = "missing" THEN Ok(value)
  ELSE IF IsList(value)
  THEN LET b1 == IF IsList(b) THEN b ELSE List(<<>>)
       IN IF value.l # <<>>
          THEN IF value.l[1].k = "d"
               THEN Ok(List(AppendNew(b1.l, value.l)))
               ELSE UnionOutcomes(b1.l, value.l)
          ELSE Ok(b1)
  ELSE IF IsStr(value) /\ Truthy(value) /\ ~Truthy(b) THEN Ok(value)
  ELSE IF IsNum(value) /\ Truthy(value) /\ ~Truthy(b) THEN Ok(value)
  ELSE Ok(b)

\* line 359: the loop over new.items(), in key order; a raise ends it
RECURSIVE MergeFrom(_, _, _)
MergeFrom(outs, new, j) ==
  IF j > Len(KeyOrder) THEN outs
  ELSE LET key == KeyOrder[j]
           step(o) ==
             IF o.err \/ new[key].t = "missing" THEN {o}
             ELSE {[err |-> r.err, key |-> IF r.err THEN key ELSE "",
                    rec |-> [o.rec EXCEPT ![key] = r.val]] :
                     r \in MergeValue(o.rec[key], new[key])}
       IN MergeFrom(UNION {step(o) : o \in outs}, new, j + 1)

\* _merge_info(base, new) for a base that is not empty: every way the call
\* can end; err = TRUE when it raised, and key is then the key it raised at
MergeInfo(base, new) ==
  MergeFrom({[err |-> FALSE, key |-> "", rec |-> base]}, new, 1)

\* ------------------------------------------------- ProtocolSynopsis(**info)
\* the validation of the declared field types (lines 32-91)
ValidField(key, v) ==
  IF key \in StrKeys THEN IsStr(v)
  ELSE IF key \in OptStrKeys THEN IsStr(v) \/ v.t = "null"
  ELSE IF key \in IntKeys THEN IsNum(v)
  ELSE IF key \in StrListKeys
       THEN IsList(v) /\ \A j \in 1..Len(v.l) : v.l[j].k = "s"
  ELSE IF key \in ArmListKeys
       THEN IsList(v) /\ \A j \in 1..Len(v.l) : v.l[j].k = "d"
  ELSE TRUE

ValidRecord(info) == \A k \in SchemaKeys : ValidField(k, info[k])

\* the model object: the declared fields only, a key the model does not
\* declare is ignored
Synopsis(info) == [k \in Keys |-> IF k \in SchemaKeys THEN info[k] ELSE Missing]

\* ------------------------------------------------------ the oracle's answers
ArmA == D("Arm A", "desc", "daily")
ArmB == D("Arm A", "desc", "weekly")

OracleValues(key) ==
  IF key \in StrKeys
  THEN {Null, Scalar(S("a")), List(<<>>), List(<<S("a")>>)}
  ELSE IF key \in OptStrKeys
  THEN {Null, Scalar(S("a")), Scalar(S("b")), List(<<>>)}
  ELSE IF key \in IntKeys
  THEN {Null, Scalar(N(1))}
  ELSE IF key \in StrListKeys
  THEN {Null, Scalar(S("a")), List(<<>>), List(<<S("a")>>),
        List(<<S("a"), S("a")>>), List(<<S("a"), S("b")>>),
        List(<<S("b"), S("c")>>)}
  ELSE IF key \in ArmListKeys
  THEN {Scalar(S("a")), List(<<>>), List(<<ArmA>>),
        List(<<ArmA, ArmA>>), List(<<ArmA, ArmB>>)}
  ELSE {Scalar(S("a"))}

\* the decoded JSON objects _process_chunk is looked at with on its own:
\* for the list fields every kind of value, also mixed lists
DecodedListValues ==
  {Missing, Null, Scalar(S("")), Scalar(S("a")), Scalar(N(0)), Scalar(N(1)),
   Scalar(D("Arm A", "desc", "daily")), List(<<>>), List(<<S("a")>>),
   List(<<D("Arm A", "desc", "daily")>>),
   List(<<S("a"), D("Arm A", "desc", "daily")>>)}

DecodedObjects ==
  {[k \in Keys |->
      IF k \in StrListKeys THEN v1
      ELSE IF k \in ArmListKeys THEN v2
      ELSE IF k \in StrKeys THEN v3
      ELSE IF k \in IntKeys THEN v4
      ELSE Missing] :
     v1 \in DecodedListValues, v2 \in DecodedListValues,
     v3 \in {Missing, Null, Scalar(S("a"))},
     v4 \in {Missing, Scalar(N(1))}}

\* the decoded JSON objects: {}, the objects with one key, and three
\* objects with several keys, all of them well typed
EmptyObject == [k \in Keys |-> Missing]
SeveralKeys ==
  {[EmptyObject EXCEPT !["sample_size"] = Scalar(N(0)),
                       !["primary_objectives"] = List(<<S("a")>>)],
   [EmptyObject EXCEPT !["sample_size"] = Scalar(N(2)),
                       !["primary_objectives"] = List(<<S("b")>>)],
   [EmptyObject EXCEPT !["sponsor"] = Scalar(S("a")),
                       !["interim_analysis"] = Scalar(S("a")),
                       !["sample_size"] = Scalar(N(1)),
                       !["primary_objectives"] = List(<<S("a")>>),
                       !["arms"] = List(<<ArmA>>)]}
Responses ==
  {EmptyObject} \cup SeveralKeys \cup
  UNION {{[EmptyObject EXCEPT ![k] = v] : v \in OracleValues(k)} : k \in Keys}

\* --------------------------------------------------------------- variables
VARIABLES
  \* _chunk_text
  text,            \* argument
  max_chunk_size,  \* argument
  sentences,       \* line 119
  chunks,          \* line 120: the rendered chunks
  chunk_parts,     \* history: the current_chunk list joined into each chunk
  current_chunk,   \* line 121
  current_size,    \* line 122
  next_sentence,   \* index of the sentence the for loop takes next
  cpc,             \* position in _chunk_text
  \* generate_synopsis and main
  total,           \* len(chunks)
  i,               \* the loop index of line 390
  chunk_info,      \* line 391, <<>> before the first extraction
  extracted_info,  \* line 389, <<>> for None, else <<record>>
  prev_info,       \* history: extracted_info as the last _merge_info call
                   \* found it, <<>> when the last fold was no merge
  calls,           \* history: oracle calls made for each chunk
  merged,          \* history: extractions folded into extracted_info
  pc,              \* position in main / generate_synopsis
  error,           \* the exception that ended the run, "none" if none
  error_key,       \* the key _merge_info was at when it raised, else ""
  first_seen,      \* history: per fill-once key, the first non-empty value
                   \* the extractions gave, its empty default before that
  ref_info,        \* history: the extractions merged one by one into a
                   \* default record, <<>> once such a merge has raised
  wrapped,         \* history: the list keys for which an extraction
                   \* wrapped a non-list value into a list
  synopsis,        \* what generate_synopsis returned, <<>> if nothing
  artifacts,       \* the output files written by main
  exit_code,       \* sys.exit status, 0 while none was given
  \* _process_chunk looked at on its own
  parsed           \* parsed_result of line 239

cvars == <<text, max_chunk_size, sentences, chunks, chunk_parts,
           current_chunk, current_size, next_sentence, cpc>>

pvars == <<total, i, chunk_info, extracted_info, prev_info, calls, merged,
           pc, error, error_key, first_seen, ref_info, wrapped, synopsis,
           artifacts, exit_code, parsed>>

hvars == <<first_seen, ref_info, wrapped>>

vars == <<cvars, pvars>>

\* the pipeline while only _chunk_text is looked at
PipelineIdle ==
  /\ total = 0
  /\ i = 0
  /\ chunk_info = <<>>
  /\ extracted_info = <<>>
  /\ prev_info = <<>>
  /\ calls = <<>>
  /\ merged = 0
  /\ pc = "idle"
  /\ error = "none"
  /\ error_key = ""
  /\ first_seen = [k \in FillOnceKeys |-> default_structure[k]]
  /\ ref_info = <<default_structure>>
  /\ wrapped = {}
  /\ synopsis = <<>>
  /\ artifacts = {}
  /\ exit_code = 0
  /\ parsed = EmptyObject

\* ------------------------------------------------------------- _chunk_text
InitChunk ==
  /\ text \in Texts
  /\ max_chunk_size \in 1..MaxChunkSize
  /\ sentences = <<>>
  /\ chunks = <<>>
  /\ chunk_parts = <<>>
  /\ current_chunk = <<>>
  /\ current_size = 0
  /\ next_sentence = 1
  /\ cpc = "start"
  /\ PipelineIdle

\* lines 119-122
ChunkStart ==
  /\ cpc = "start"
  /\ sentences' = Split(ReplaceNewlines(text))
  /\ chunks' = <<>>
  /\ chunk_parts' = <<>>
  /\ current_chunk' = <<>>
  /\ current_size' = 0
  /\ next_sentence' = 1
  /\ cpc' = "loop"
  /\ UNCHANGED <<text, max_chunk_size, pvars>>

\* lines 124-129: the sentence does not fit, close the chunk, open a new one
ChunkOverflow ==
  /\ cpc = "loop"
  /\ next_sentence <= Len(sentences)
  /\ LET sentence == sentences[next_sentence]
         sentence_size == Len(sentence)
     IN /\ Overflows(current_size, sentence_size, max_chunk_size)
        /\ chunks' = Append(chunks, CloseChunk(current_chunk))
        /\ chunk_parts' = Append(chunk_parts, current_chunk)
        /\ current_chunk' = NewChunk(sentence)
        /\ current_size' = sentence_size
  /\ next_sentence' = next_sentence + 1
  /\ UNCHANGED <<text, max_chunk_size, sentences, cpc, pvars>>

\* lines 124-125, 130-132: the sentence fits
ChunkAppend ==
  /\ cpc = "loop"
  /\ next_sentence <= Len(sentences)
  /\ LET sentence == sentences[next_sentence]
         sentence_size == Len(sentence)
     IN /\ ~Overflows(current_size, sentence_size, max_chunk_size)
        /\ current_chunk' = Append(current_chunk, sentence)
        /\ current_size' = current_size + sentence_size
  /\ next_sentence' = next_sentence + 1
  /\ UNCHANGED <<text, max_chunk_size, sentences, chunks, chunk_parts, cpc,
                 pvars>>

\* lines 134-138: flush the last chunk and return
ChunkFlush ==
  /\ cpc = "loop"
  /\ next_sentence > Len(sentences)
  /\ IF current_chunk # <<>>
     THEN /\ chunks' = Append(chunks, CloseChunk(current_chunk))
          /\ chunk_parts' = Append(chunk_parts, current_chunk)
     ELSE UNCHANGED <<chunks, chunk_parts>>
  /\ cpc' = "returned"
  /\ UNCHANGED <<text, max_chunk_size, sentences, current_chunk,
                 current_size, next_sentence, pvars>>

NextChunk == ChunkStart \/ ChunkOverflow \/ ChunkAppend \/ ChunkFlush

SpecChunk == InitChunk /\ [][NextChunk]_vars

\* ------------------------------------------------- generate_synopsis, main
\* the chunker after it returned `total` chunks to generate_synopsis
ChunkerDone ==
  /\ text = <<>>
  /\ max_chunk_size = DefaultMaxChunkSize
  /\ sentences = <<>>
  /\ chunks = <<>>
  /\ chunk_parts = <<>>
  /\ current_chunk = <<>>
  /\ current_size = 0
  /\ next_sentence = 1
  /\ cpc = "idle"

\* lines 385-389: the text is read and chunked (_chunk_text returns at least
\* one chunk), nothing is extracted yet
Init ==
  /\ ChunkerDone
  /\ total \in 1..MaxChunks
  /\ i = 1
  /\ chunk_info = <<>>
  /\ extracted_info = <<>>
  /\ prev_info = <<>>
  /\ calls = [j \in 1..total |-> 0]
  /\ merged = 0
  /\ pc = "loop"
  /\ error = "none"
  /\ error_key = ""
  /\ first_seen = [k \in FillOnceKeys |-> default_structure[k]]
  /\ ref_info = <<default_structure>>
  /\ wrapped = {}
  /\ synopsis = <<>>
  /\ artifacts = {}
  /\ exit_code = 0
  /\ parsed = EmptyObject

\* a loop that goes on to the next chunk when an extraction fails
AfterExtractionFailure_skip(k, n) ==
  IF k = n THEN [pc |-> "build", i |-> k] ELSE [pc |-> "loop", i |-> k + 1]

\* lines 304-310, 401-403: the exception leaves _process_chunk and
\* generate_synopsis, the loop is over
AfterExtractionFailure(k, n) == [pc |-> "raised", i |-> k]

\* line 390: the loop goes on to the next chunk, or ends after the last
AfterFold(k, n) ==
  IF k = n THEN [pc |-> "build", i |-> k] ELSE [pc |-> "loop", i |-> k + 1]

\* the history of the extractions, after one more of them
FirstSeen(seen, info) ==
  [k \in FillOnceKeys |->
     IF ~Truthy(seen[k]) /\ Truthy(info[k]) THEN info[k] ELSE seen[k]]

RefMerge(ref, info) ==
  IF ref = <<>> THEN <<>>
  ELSE LET outs == MergeInfo(ref[1], info)
       IN IF \E o \in outs : o.err THEN <<>>
          ELSE <<(CHOOSE o \in outs : TRUE).rec>>

Wrapped(parsed_result) ==
  {k \in array_fields :
     /\ parsed_result[k].t \notin {"missing", "list"}
     /\ Truthy(parsed_result[k])}

Extracted(parsed_result) ==
  /\ first_seen' = FirstSeen(first_seen, ProcessChunk(parsed_result))
  /\ ref_info' = RefMerge(ref_info, ProcessChunk(parsed_result))
  /\ wrapped' = wrapped \cup Wrapped(parsed_result)

\* line 223 raises: the oracle call failed
OracleError ==
  /\ pc = "loop"
  /\ calls' = [calls EXCEPT ![i] = @ + 1]
  /\ error' = "oracle"
  /\ pc' = AfterExtractionFailure(i, total).pc
  /\ i' = AfterExtractionFailure(i, total).i
  /\ UNCHANGED <<cvars, parsed, total, chunk_info, extracted_info, prev_info, merged,
                 error_key, hvars, synopsis, artifacts, exit_code>>

\* line 239 raises: the response is not valid JSON
DecodeError ==
  /\ pc = "loop"
  /\ calls' = [calls EXCEPT ![i] = @ + 1]
  /\ error' = "decode"
  /\ pc' = AfterExtractionFailure(i, total).pc
  /\ i' = AfterExtractionFailure(i, total).i
  /\ UNCHANGED <<cvars, parsed, total, chunk_info, extracted_info, prev_info, merged,
                 error_key, hvars, synopsis, artifacts, exit_code>>

\* lines 391-393: the first extraction becomes extracted_info
FirstChunk ==
  /\ pc = "loop"
  /\ extracted_info = <<>>
  /\ \E parsed_result \in Responses :
       /\ chunk_info' = <<ProcessChunk(parsed_result)>>
       /\ extracted_info' = <<ProcessChunk(parsed_result)>>
       /\ Extracted(parsed_result)
  /\ calls' = [calls EXCEPT ![i] = @ + 1]
  /\ prev_info' = <<>>
  /\ merged' = merged + 1
  /\ pc' = AfterFold(i, total).pc
  /\ i' = AfterFold(i, total).i
  /\ UNCHANGED <<cvars, parsed, total, error, error_key, synopsis, artifacts,
                 exit_code>>

\* lines 391, 394-395: a later extraction is merged into extracted_info
MergeChunk ==
  /\ pc = "loop"
  /\ extracted_info # <<>>
  /\ \E parsed_result \in Responses :
       /\ chunk_info' = <<ProcessChunk(parsed_result)>>
       /\ Extracted(parsed_result)
       /\ \E o \in MergeInfo(extracted_info[1], ProcessChunk(parsed_result)) :
            IF o.err
            THEN /\ error' = "merge"
                 /\ error_key' = o.key
                 /\ pc' = "raised"
                 /\ UNCHANGED <<i, extracted_info, merged>>
            ELSE /\ extracted_info' = <<o.rec>>
                 /\ merged' = merged + 1
                 /\ pc' = AfterFold(i, total).pc
                 /\ i' = AfterFold(i, total).i
                 /\ UNCHANGED <<error, error_key>>
  /\ calls' = [calls EXCEPT ![i] = @ + 1]
  /\ prev_info' = extracted_info
  /\ UNCHANGED <<cvars, parsed, total, synopsis, artifacts, exit_code>>

\* lines 397-399: the model object is built, or its validation raises
Build ==
  /\ pc = "build"
  /\ IF ValidRecord(extracted_info[1])
     THEN /\ synopsis' = <<Synopsis(extracted_info[1])>>
          /\ pc' = "returned"
          /\ UNCHANGED error
     ELSE /\ error' = "validation"
          /\ pc' = "raised"
          /\ UNCHANGED synopsis
  /\ UNCHANGED <<cvars, parsed, total, i, chunk_info, extracted_info, prev_info,
                 calls, merged, error_key, hvars, artifacts, exit_code>>

\* lines 581-585
WriteJson ==
  /\ pc = "returned"
  /\ artifacts' = artifacts \cup {"json"}
  /\ pc' = "json_written"
  /\ UNCHANGED <<cvars, parsed, total, i, chunk_info, extracted_info, prev_info,
                 calls, merged, error, error_key, hvars, synopsis,
                 exit_code>>

\* lines 587-592
SaveToWord ==
  /\ pc = "json_written"
  /\ artifacts' = artifacts \cup {"word"}
  /\ pc' = "done"
  /\ UNCHANGED <<cvars, parsed, total, i, chunk_info, extracted_info, prev_info,
                 calls, merged, error, error_key, hvars, synopsis,
                 exit_code>>

\* lines 594-596
MainExcept ==
  /\ pc = "raised"
  /\ exit_code' = 1
  /\ pc' = "exited"
  /\ UNCHANGED <<cvars, parsed, total, i, chunk_info, extracted_info, prev_info,
                 calls, merged, error, error_key, hvars, synopsis,
                 artifacts>>

Next ==
  \/ OracleError
  \/ DecodeError
  \/ FirstChunk
  \/ MergeChunk
  \/ Build
  \/ WriteJson
  \/ SaveToWord
  \/ MainExcept

Spec == Init /\ [][Next]_vars

\* ------------------------------------------- _process_chunk on its own
\* line 239: a response was decoded into a JSON object
InitExtract ==
  /\ ChunkerDone
  /\ parsed \in DecodedObjects
  /\ total = 1
  /\ i = 1
  /\ chunk_info = <<>>
  /\ extracted_info = <<>>
  /\ prev_info = <<>>
  /\ calls = <<1>>
  /\ merged = 0
  /\ pc = "decoded"
  /\ error = "none"
  /\ error_key = ""
  /\ first_seen = [k \in FillOnceKeys |-> default_structure[k]]
  /\ ref_info = <<default_structure>>
  /\ wrapped = {}
  /\ synopsis = <<>>
  /\ artifacts = {}
  /\ exit_code = 0

\* lines 240-303: the record is built and returned
ExtractChunk ==
  /\ pc = "decoded"
  /\ chunk_info' = <<ProcessChunk(parsed)>>
  /\ pc' = "extracted"
  /\ UNCHANGED <<cvars, parsed, total, i, extracted_info, prev_info, calls,
                 merged, error, error_key, hvars, synopsis, artifacts,
                 exit_code>>

NextExtract == ExtractChunk

SpecExtract == InitExtract /\ [][NextExtract]_vars

\* ------------------------------------------------- properties of the chunker
\* a returned chunk without its trailing period, split back into sentences
ChunkSentences(chunk) == Split(SubSeq(chunk, 1, Len(chunk) - 1))

\* C1: every returned chunk is at most max_chunk_size characters long
\* (separators and trailing period counted), unless it consists of exactly
\* one sentence that is itself longer than max_chunk_size.
C1_ChunkWithinBudget ==
  cpc = "returned" =>
    \A c \in 1..Len(chunks) :
      \/ Len(chunks[c]) <= max_chunk_size
      \/ /\ Len(chunk_parts[c]) = 1
         /\ Len(chunk_parts[c][1]) > max_chunk_size

\* C9 as stated: the sentences obtained by splitting the text itself on '. '
\* are the sentences of the chunks, once each, in order, none of them split
\* (a newline inside a sentence may show as a space in the chunk).
C9_RawSentencesPreserved ==
  cpc = "returned" =>
    Flatten(chunk_parts) =
      [j \in 1..Len(Split(text)) |-> ReplaceNewlines(Split(text)[j])]

\* C9 as amended: the sentences of the text with every newline replaced by a
\* space, split on '. ', are the sentences joined into the chunks, once each
\* and in order; and every chunk that holds a sentence splits back, without
\* its trailing period, into exactly the sentences joined into it.
C9_SentencesPreserved ==
  cpc = "returned" =>
    /\ Flatten(chunk_parts) = Split(ReplaceNewlines(text))
    /\ \A c \in 1..Len(chunks) :
         chunk_parts[c] # <<>> => ChunkSentences(chunks[c]) = chunk_parts[c]

\* a text with a newline after a period, cut into several chunks
C9_Witness ==
  /\ cpc = "returned"
  /\ Len(chunks) >= 2
  /\ Len(Split(text)) < Len(sentences)
  /\ Flatten(chunk_parts) = sentences

\* ------------------------------------------------ properties of the pipeline
\* the accumulated record after the last fold, and before it
Acc == extracted_info[1]
Before == prev_info[1]

\* the last fold was a _merge_info call that returned
MergeReturned == prev_info # <<>> /\ error # "merge"

\* every chunk was extracted and folded
LoopFinished == merged = total

\* a fill-once value that is set: a non-empty string or a non-zero number
IsSet(v) == (IsStr(v) \/ IsNum(v)) /\ Truthy(v)

\* C2: a fill-once field that holds a non-empty string or a non-zero number
\* before a merge holds the same value after it, whatever the incoming
\* record gives for the field.
C2_FillOnceKept ==
  MergeReturned =>
    \A k \in FillOnceKeys : IsSet(Before[k]) => Acc[k] = Before[k]

\* C3: a merge never makes a list field shorter, also when the accumulated
\* record is the first extraction taken as it came.
C3_ListsNeverShrink ==
  MergeReturned =>
    \A k \in array_fields : Len(Acc[k].l) >= Len(Before[k].l)

\* C4: the record a completed run returns has every schema field with its
\* type: a string for the string fields, a number for sample_size, a list
\* for the list fields.
C4_FinalRecordTyped ==
  synopsis # <<>> =>
    \A k \in SchemaKeys :
      /\ synopsis[1][k].t # "missing"
      /\ k \in StrKeys \cup OptStrKeys => IsStr(synopsis[1][k])
      /\ k \in IntKeys => IsNum(synopsis[1][k])
      /\ k \in array_fields => IsList(synopsis[1][k])

\* C5: when the oracle call or the JSON decoding fails for chunk i, the run
\* is over: that chunk was asked for once, every chunk before it once, no
\* chunk after it at all, only the chunks before it were folded,
\* generate_synopsis returned nothing, main wrote no artifact and exits 1.
C5_FailureAborts ==
  error \in {"oracle", "decode"} =>
    /\ pc \in {"raised", "exited"}
    /\ \A j \in 1..total :
         calls[j] = (IF j <= i THEN 1 ELSE 0)
    /\ merged = i - 1
    /\ synopsis = <<>>
    /\ artifacts = {}
    /\ pc = "exited" => exit_code = 1

\* the second of three chunks failed, after the first was folded
C5_Witness ==
  /\ error = "decode"
  /\ pc = "exited"
  /\ total = 3
  /\ i = 2
  /\ extracted_info # <<>>

\* C6: after the loop over all chunks, each fill-once field holds the first
\* non-empty (non-zero) value the extractions gave for it, in chunk order,
\* and an empty value when none gave one (null counted as empty here).
C6_FirstNonEmptyWins ==
  (LoopFinished /\ error # "merge") =>
    \A k \in FillOnceKeys :
      IF Truthy(first_seen[k]) THEN Acc[k] = first_seen[k]
      ELSE ~Truthy(Acc[k])

\* two records that agree, lists of strings compared as sets
SameAsSets(r1, r2) ==
  \A k \in Keys :
    IF /\ IsList(r1[k]) /\ IsList(r2[k])
       /\ \A e \in Range(r1[k].l) \cup Range(r2[k].l) : e.k # "d"
    THEN Range(r1[k].l) = Range(r2[k].l)
    ELSE r1[k] = r2[k]

\* C7: the record the loop ends with (first extraction taken as the seed)
\* is the record that merging every extraction, the first included, into a
\* default record gives, lists of strings compared as sets.
C7_SeedEqualsMergedSeed ==
  (LoopFinished /\ error # "merge" /\ ref_info # <<>>) =>
    SameAsSets(Acc, ref_info[1])

\* C8: a non-list value the oracle gave for a list field, wrapped into a
\* list by the Extractor, makes no later step of the run raise: neither a
\* merge at that key nor the building of the final record from that field.
C8_WrappedValueAbsorbed ==
  \A k \in wrapped :
    /\ error = "merge" => error_key # k
    /\ error = "validation" => ValidField(k, Acc[k])

\* the sub-record entries of a list value, in order
Entries(v) == IF IsList(v) THEN v.l ELSE <<>>

\* how often entry e occurs in list q
Count(e, q) == Cardinality({j \in 1..Len(q) : q[j] = e})

\* C10: merging an incoming list of sub-records into arms keeps the entries
\* already there in their places, appends each incoming entry that is not
\* there yet once and in incoming order, appends nothing else, and so makes
\* no entry occur twice that did not occur twice before.
C10_StructuralAppend ==
  (MergeReturned /\ Entries(chunk_info[1]["arms"]) # <<>>
                 /\ Entries(chunk_info[1]["arms"])[1].k = "d") =>
    LET old == Entries(Before["arms"])
        inc == Entries(chunk_info[1]["arms"])
        new == Entries(Acc["arms"])
        added == SubSeq(new, Len(old) + 1, Len(new))
    IN /\ Len(new) >= Len(old)
       /\ SubSeq(new, 1, Len(old)) = old
       /\ Range(added) = Range(inc) \ Range(old)
       /\ \A e \in Range(added) : Count(e, added) = 1
       /\ \A e \in Range(new) :
            Count(e, new) = (IF e \in Range(old) THEN Count(e, old) ELSE 1)
       /\ \A x, y \in 1..Len(added) :
            x < y =>
              (CHOOSE j \in 1..Len(inc) :
                 inc[j] = added[x] /\ \A h \in 1..(j - 1) : inc[h] # added[x])
              < (CHOOSE j \in 1..Len(inc) :
                 inc[j] = added[y] /\ \A h \in 1..(j - 1) : inc[h] # added[y])

\* an arm already accumulated comes again, together with a new one
C10_Witness ==
  /\ MergeReturned
  /\ Before["arms"] = List(<<ArmA>>)
  /\ chunk_info[1]["arms"] = List(<<ArmA, ArmB>>)
  /\ Acc["arms"] = List(<<ArmA, ArmB>>)

\* C11: a merge of a non-empty incoming list of strings into a list-of-string
\* field leaves the field holding the set union of its old elements and the
\* incoming ones, each value once, in whatever order.
C11_UnionMerge ==
  \A k \in StrListKeys :
    (MergeReturned /\ Entries(chunk_info[1][k]) # <<>>
                   /\ Entries(chunk_info[1][k])[1].k # "d") =>
      /\ IsList(Acc[k])
      /\ Range(Acc[k].l) = Range(Entries(Before[k])) \cup Range(chunk_info[1][k].l)
      /\ \A e \in Range(Acc[k].l) : Count(e, Acc[k].l) = 1

\* "a", "b" accumulated, then "b", "c" merged: three elements
C11_Witness ==
  /\ MergeReturned
  /\ Range(Before["primary_objectives"].l) = {S("a"), S("b")}
  /\ chunk_info[1]["primary_objectives"] = List(<<S("b"), S("c")>>)
  /\ Range(Acc["primary_objectives"].l) = {S("a"), S("b"), S("c")}
  /\ Len(Acc["primary_objectives"].l) = 3

\* C12: every returned chunk is non-empty and holds at least one sentence of
\* the text, also when the first sentence alone is longer than
\* max_chunk_size; for the empty text the result is no chunk or one chunk
\* that holds nothing but the empty sentence.
C12_ChunksHoldSentences ==
  cpc = "returned" =>
    /\ \A c \in 1..Len(chunks) : chunks[c] # <<>> /\ chunk_parts[c] # <<>>
    /\ text = <<>> => (chunk_parts = <<>> \/ chunk_parts = << <<(<<>>)>> >>)

\* a decoded value that counts as empty: null, "" and 0
IsEmptyValue(v) == v \in {Null, Scalar(S("")), Scalar(N(0))}

\* C13: in the record the Extractor returns for a decoded JSON object every
\* list field is a list: the decoded value itself when that is a list, the
\* one-element list of the decoded value when that is a non-empty non-list
\* value, the empty list when it is empty, null or absent; the Extractor
\* does not raise and leaves no "" in such a field.
C13_ListFieldsCoerced ==
  pc = "extracted" =>
    /\ error = "none"
    /\ \A k \in array_fields :
         LET v == parsed[k]
             r == chunk_info[1][k]
         IN /\ IsList(r)
            /\ r # Scalar(S(""))
            /\ IsList(v) => r = v
            /\ (v.t = "scalar" /\ ~IsEmptyValue(v)) => r = List(<<v.e>>)
            /\ (v.t = "missing" \/ IsEmptyValue(v)) => r = List(<<>>)

\* "arms": "a" is wrapped, "primary_objectives": "" becomes the empty list
C13_Witness ==
  /\ pc = "extracted"
  /\ parsed["arms"] = Scalar(S("a"))
  /\ chunk_info[1]["arms"] = List(<<S("a")>>)
  /\ parsed["primary_objectives"] = Scalar(S(""))
  /\ chunk_info[1]["primary_objectives"] = List(<<>>)

====
